---- MODULE Spec2Model ----
(***************************************************************************)
(* heap_utils: binary-heap helpers over a caller-owned std::vector          *)
(* (include/heap_utils/heap_utils.hpp).  The helpers delegate to            *)
(* std::make_heap / std::push_heap / std::pop_heap / std::is_heap; those    *)
(* are modelled by the algorithms of libstdc++ (bits/stl_heap.h), index by  *)
(* index, with 0-based positions as in the C++ code.                        *)
(***************************************************************************)
EXTENDS Integers, Sequences, FiniteSets, Bags, TLC

\* ------------------------------------------------------------------ bounds
MaxVal  == 2   \* elements are the integers 0..MaxVal
MaxLen  == 5   \* the caller's vector holds at most MaxLen elements
MaxDrain == 5   \* length of the vector that is heapified and drained
MaxInput == 4  \* length of the vector handed to top_k is at most MaxInput
MaxK    == 5   \* k of top_k ranges over 0..MaxK

Values == 0..MaxVal
NoValue == -1  \* "no value returned" (the call threw)

\* --------------------------------------------------------------- comparators
\* Compare template argument: std::less<> (default), std::greater<>, and a
\* caller-supplied strict weak ordering that looks at a key of the element
\* only ([](int a, int b){ return a / 2 < b / 2; }).
Comparators == {"less", "greater", "by_key"}

Key(a) == a \div 2

Comp(c, a, b) ==
  CASE c = "less"    -> a < b
    [] c = "greater" -> a > b
    [] c = "by_key"  -> Key(a) < Key(b)

\* ----------------------------------------------------------- vector access
At(s, i) == s[i + 1]                       \* *(first + i)
Put(s, i, v) == [s EXCEPT ![i + 1] = v]    \* *(first + i) = v

\* ------------------------------------------------------------ std::is_heap
RECURSIVE is_heap_until(_, _, _, _, _)
is_heap_until(first, n, parent, child, c) ==
  IF child < n
  THEN IF Comp(c, At(first, parent), At(first, child))
       THEN child
       ELSE is_heap_until(first, n,
                          IF child % 2 = 0 THEN parent + 1 ELSE parent,
                          child + 1, c)
  ELSE n

is_heap(s, c) == is_heap_until(s, Len(s), 0, 1, c) = Len(s)

\* ---------------------------------------------------------- std::push_heap
\* variant: the value climbs one level at most (`if` in place of `while`)
push_heap_impl_one_level(first, holeIndex, topIndex, value, c) ==
  LET parent == (holeIndex - 1) \div 2 IN
  IF holeIndex > topIndex /\ Comp(c, At(first, parent), value)
  THEN Put(Put(first, holeIndex, At(first, parent)), parent, value)
  ELSE Put(first, holeIndex, value)

RECURSIVE push_heap_impl(_, _, _, _, _)
push_heap_impl(first, holeIndex, topIndex, value, c) ==
  LET parent == (holeIndex - 1) \div 2 IN
  IF holeIndex > topIndex /\ Comp(c, At(first, parent), value)
  THEN push_heap_impl(Put(first, holeIndex, At(first, parent)),
                      parent, topIndex, value, c)
  ELSE Put(first, holeIndex, value)

push_heap(s, c) ==
  push_heap_impl(s, Len(s) - 1, 0, At(s, Len(s) - 1), c)

\* -------------------------------------------------------- std::__adjust_heap
\* variant: the hole always descends to the second child, without comparing
\* the two children
RECURSIVE adjust_heap_loop_right(_, _, _, _, _)
adjust_heap_loop_right(first, holeIndex, secondChild, len, c) ==
  IF secondChild < (len - 1) \div 2
  THEN LET sc == 2 * (secondChild + 1)
       IN adjust_heap_loop_right(Put(first, holeIndex, At(first, sc)), sc, sc, len, c)
  ELSE [first |-> first, holeIndex |-> holeIndex, secondChild |-> secondChild]

RECURSIVE adjust_heap_loop(_, _, _, _, _)
adjust_heap_loop(first, holeIndex, secondChild, len, c) ==
  IF secondChild < (len - 1) \div 2
  THEN LET sc0 == 2 * (secondChild + 1)
           sc  == IF Comp(c, At(first, sc0), At(first, sc0 - 1))
                  THEN sc0 - 1 ELSE sc0
       IN adjust_heap_loop(Put(first, holeIndex, At(first, sc)), sc, sc, len, c)
  ELSE [first |-> first, holeIndex |-> holeIndex, secondChild |-> secondChild]

\* variant: the value is dropped into the hole at the bottom, without the
\* final __push_heap that lets it climb back
adjust_heap_no_sift_up(first, holeIndex, len, value, c) ==
  LET l  == adjust_heap_loop(first, holeIndex, holeIndex, len, c)
      l2 == IF len % 2 = 0 /\ l.secondChild = (len - 2) \div 2
            THEN LET sc == 2 * (l.secondChild + 1)
                 IN [first |-> Put(l.first, l.holeIndex, At(l.first, sc - 1)),
                     holeIndex |-> sc - 1]
            ELSE [first |-> l.first, holeIndex |-> l.holeIndex]
  IN Put(l2.first, l2.holeIndex, value)

adjust_heap(first, holeIndex, len, value, c) ==
  LET l  == adjust_heap_loop(first, holeIndex, holeIndex, len, c)
      l2 == IF len % 2 = 0 /\ l.secondChild = (len - 2) \div 2
            THEN LET sc == 2 * (l.secondChild + 1)
                 IN [first |-> Put(l.first, l.holeIndex, At(l.first, sc - 1)),
                     holeIndex |-> sc - 1]
            ELSE [first |-> l.first, holeIndex |-> l.holeIndex]
  IN push_heap_impl(l2.first, l2.holeIndex, holeIndex, value, c)

\* ----------------------------------------------------------- std::pop_heap
\* variant: the last element is read after it has been overwritten by the top
pop_heap_lost_value(s, c) ==
  IF Len(s) > 1
  THEN LET last  == Len(s) - 1
           s1    == Put(s, last, At(s, 0))
           value == At(s1, last)
       IN adjust_heap(s1, 0, last, value, c)
  ELSE s

pop_heap(s, c) ==
  IF Len(s) > 1
  THEN LET last  == Len(s) - 1
           value == At(s, last)
       IN adjust_heap(Put(s, last, At(s, 0)), 0, last, value, c)
  ELSE s

\* ---------------------------------------------------------- std::make_heap
RECURSIVE make_heap_loop(_, _, _, _)
make_heap_loop(first, parent, len, c) ==
  LET f == adjust_heap(first, parent, len, At(first, parent), c) IN
  IF parent = 0 THEN f ELSE make_heap_loop(f, parent - 1, len, c)

make_heap(s, c) ==
  IF Len(s) < 2 THEN s ELSE make_heap_loop(s, (Len(s) - 2) \div 2, Len(s), c)

\* --------------------------------------------------------------- heap_utils
heapify(s, c) == make_heap(s, c)

heap_push(data, value, c) == push_heap(Append(data, value), c)

\* variant: no emptiness check, front() of an empty vector read as T{}
heap_top_unchecked(data) ==
  IF data = <<>>
  THEN [out |-> 0, err |-> FALSE]
  ELSE [out |-> At(data, 0), err |-> FALSE]

\* variant: returns data.back()
heap_top_back(data) ==
  IF data = <<>>
  THEN [out |-> NoValue, err |-> TRUE]
  ELSE [out |-> At(data, Len(data) - 1), err |-> FALSE]

heap_top(data) ==
  IF data = <<>>
  THEN [out |-> NoValue, err |-> TRUE]
  ELSE [out |-> At(data, 0), err |-> FALSE]

\* variant: std::pop_heap is not called, the back element is removed as is
heap_pop_no_pop_heap(data, c) ==
  IF data = <<>>
  THEN [data |-> data, out |-> NoValue, err |-> TRUE]
  ELSE [data |-> SubSeq(data, 1, Len(data) - 1),
        out |-> At(data, Len(data) - 1), err |-> FALSE]

\* variant: data.pop_back() is missing
heap_pop_no_pop_back(data, c) ==
  IF data = <<>>
  THEN [data |-> data, out |-> NoValue, err |-> TRUE]
  ELSE LET s == pop_heap(data, c)
       IN [data |-> s, out |-> At(s, Len(s) - 1), err |-> FALSE]

heap_pop(data, c) ==
  IF data = <<>>
  THEN [data |-> data, out |-> NoValue, err |-> TRUE]
  ELSE LET s == pop_heap(data, c)
       IN [data |-> SubSeq(s, 1, Len(s) - 1), out |-> At(s, Len(s) - 1),
           err |-> FALSE]

RECURSIVE top_k_loop(_, _, _, _, _)
top_k_loop(data, out, i, kk, c) ==
  IF i < kk
  THEN LET p == heap_pop(data, c) IN
       IF p.err
       THEN [data |-> p.data, out |-> <<>>, err |-> TRUE]
       ELSE top_k_loop(p.data, Append(out, p.out), i + 1, kk, c)
  ELSE [data |-> data, out |-> out, err |-> FALSE]

\* variant: k is not clamped to the size of the input
top_k_no_clamp(data, k, c) ==
  IF k = 0 \/ data = <<>>
  THEN [data |-> data, out |-> <<>>, err |-> FALSE]
  ELSE LET h == heapify(data, c)
       IN top_k_loop(h, <<>>, 0, k, c)

top_k(data, k, c) ==
  IF k = 0 \/ data = <<>>
  THEN [data |-> data, out |-> <<>>, err |-> FALSE]
  ELSE LET h  == heapify(data, c)
           n  == Len(h)
           kk == IF k > n THEN n ELSE k
       IN top_k_loop(h, <<>>, 0, kk, c)

largest_k(data, k) == top_k(data, k, "less")

smallest_k(data, k) == top_k(data, k, "greater")


\* ===================================================================== state
VARIABLES
  data,     \* the caller's std::vector<T>
  comp,     \* the comparator the caller uses for every call on `data`
  op,       \* the last operation called
  run,      \* number of heapify calls made in a row just now (2 = two or more)
  before,   \* `data` as it was when the last operation was called
  arg,      \* argument of the last call: the pushed value, or k of top_k
  cArg,     \* comparator handed to the last top_k call
  ret,      \* value returned by the last heap_top / heap_pop
  result,   \* vector returned by the last top_k / largest_k / smallest_k
  err,      \* the last call threw std::runtime_error
  heaped,   \* heapify has been called on `data`
  dual,     \* bookkeeping of a heap_push immediately followed by heap_pop
  drain,    \* values popped since the last heapify, while no push intervened
  expected  \* per value: occurrences in the vector as constructed, plus the
            \* times it was pushed, minus the times heap_pop returned it

vars == <<data, comp, op, run, before, arg, cArg, ret, result, err, heaped,
          dual, drain, expected>>

SeqsUpTo(n) == UNION {[1..m -> Values] : m \in 0..n}

NoDual == [st |-> "none", base |-> <<>>, x |-> NoValue, top |-> NoValue]
NoDrain(on) == [on |-> on, live |-> FALSE, src |-> <<>>, out |-> <<>>]

Count(s, v) == Cardinality({i \in DOMAIN s : s[i] = v})

\* `record` switches the bookkeeping of the popped values in `drain` on.
InitWith(maxLen, comps, record) ==
  /\ data \in SeqsUpTo(maxLen)
  /\ comp \in comps
  /\ op = "init"
  /\ run = 0
  /\ before = data
  /\ arg = NoValue
  /\ cArg = comp
  /\ ret = NoValue
  /\ result = <<>>
  /\ err = FALSE
  /\ heaped = FALSE
  /\ dual = NoDual
  /\ drain = NoDrain(record)
  /\ expected = [v \in Values |-> Count(data, v)]

Init == InitWith(MaxLen, Comparators, FALSE)

\* heapify(data.begin(), data.end(), comp)
Heapify ==
  /\ data' = heapify(data, comp)
  /\ op' = "heapify" /\ run' = (IF run < 2 THEN run + 1 ELSE 2) /\ before' = data
  /\ arg' = NoValue /\ ret' = NoValue /\ err' = FALSE
  /\ heaped' = TRUE
  /\ dual' = NoDual
  /\ drain' = IF drain.on
              THEN [on |-> TRUE, live |-> TRUE, src |-> data, out |-> <<>>]
              ELSE drain
  /\ UNCHANGED <<comp, cArg, result, expected>>

\* heap_push(data, x, comp).  std::push_heap requires [begin, end - 1) to be
\* a heap under comp; the caller respects that precondition.
HeapPush(x) ==
  /\ is_heap(data, comp)
  /\ Len(data) < MaxLen
  /\ data' = heap_push(data, x, comp)
  /\ op' = "heap_push" /\ run' = 0 /\ before' = data
  /\ arg' = x /\ ret' = NoValue /\ err' = FALSE
  /\ dual' = [st |-> "pushed", base |-> data, x |-> x, top |-> At(data', 0)]
  /\ drain' = NoDrain(drain.on)
  /\ expected' = [expected EXCEPT ![x] = @ + 1]
  /\ UNCHANGED <<comp, cArg, result, heaped>>

\* heap_pop(data, comp).  std::pop_heap requires [begin, end) to be a heap.
HeapPop ==
  /\ is_heap(data, comp)
  /\ LET r == heap_pop(data, comp) IN
       /\ data' = r.data
       /\ ret' = r.out
       /\ err' = r.err
       /\ dual' = IF dual.st = "pushed" /\ ~r.err
                  THEN [dual EXCEPT !.st = "popped"] ELSE NoDual
       /\ drain' = IF drain.live /\ ~r.err
                   THEN [drain EXCEPT !.out = Append(@, r.out)] ELSE drain
       /\ expected' = IF r.err THEN expected
                      ELSE [expected EXCEPT ![r.out] = @ - 1]
  /\ op' = "heap_pop" /\ run' = 0 /\ before' = data
  /\ arg' = NoValue
  /\ UNCHANGED <<comp, cArg, result, heaped>>

\* heap_top(data): takes the vector by const reference.
HeapTop ==
  /\ LET r == heap_top(data) IN ret' = r.out /\ err' = r.err
  /\ op' = "heap_top" /\ run' = 0 /\ before' = data
  /\ arg' = NoValue
  /\ UNCHANGED <<data, comp, cArg, result, heaped, dual, drain, expected>>

\* top_k / largest_k / smallest_k take the vector BY VALUE: the callee works
\* on its own copy and the caller's vector is not touched.
TopKCall(name, k, c, r) ==
  /\ result' = r.out
  /\ err' = r.err
  /\ data' = data
  /\ op' = name /\ run' = 0 /\ before' = data
  /\ arg' = k /\ cArg' = c /\ ret' = NoValue
  /\ UNCHANGED <<comp, heaped, dual, drain, expected>>

\* variant: top_k takes the vector by reference and pops from the caller's
TopK_InPlace(k, c) ==
  LET r == top_k(data, k, c) IN
  /\ result' = r.out
  /\ err' = r.err
  /\ data' = r.data
  /\ op' = "top_k" /\ run' = 0 /\ before' = data
  /\ arg' = k /\ cArg' = c /\ ret' = NoValue
  /\ UNCHANGED <<comp, heaped, dual, drain, expected>>

TopK(k, c) == LET copy == data IN TopKCall("top_k", k, c, top_k(copy, k, c))

LargestK(k) == LET copy == data IN TopKCall("largest_k", k, "less", largest_k(copy, k))

SmallestK(k) == LET copy == data IN TopKCall("smallest_k", k, "greater", smallest_k(copy, k))

Next ==
  \/ Heapify
  \/ \E x \in Values : HeapPush(x)
  \/ HeapPop
  \/ HeapTop

Spec == Init /\ [][Next]_vars

\* top_k and its two wrappers as functions of their input: any vector, any k.
InitTopK == InitWith(MaxInput, {"less"}, FALSE)

NextTopK ==
  \/ \E k \in 0..MaxK, c \in Comparators : TopK(k, c)
  \/ \E k \in 0..MaxK : LargestK(k)
  \/ \E k \in 0..MaxK : SmallestK(k)

SpecTopK == InitTopK /\ [][NextTopK]_vars

\* heapify once, then heap_pop until the vector is empty
InitDrain == InitWith(MaxDrain, Comparators, TRUE)

NextDrain ==
  \/ op = "init" /\ Heapify
  \/ heaped /\ HeapPop

SpecDrain == InitDrain /\ [][NextDrain]_vars


\* ============================================================== vocabulary
SameElements(s, t) == \A v \in Values : Count(s, v) = Count(t, v)

\* no position >= 1 orders after its parent
HeapInvariant(s, c) ==
  \A i \in 1..(Len(s) - 1) : ~Comp(c, At(s, (i - 1) \div 2), At(s, i))

\* best first: no later element is better than an earlier one (y is better
\* than x when comp(x, y): under "<" the larger element is the better one)
BestToWorst(s, c) ==
  \A i \in DOMAIN s : \A j \in DOMAIN s : i < j => ~Comp(c, s[i], s[j])

Min2(a, b) == IF a < b THEN a ELSE b

Reverse(s) == [i \in 1..Len(s) |-> s[Len(s) + 1 - i]]

RemoveAt(s, i) == SubSeq(s, 1, i - 1) \o SubSeq(s, i + 1, Len(s))

\* reference full sort, best first (selection sort, unrelated to the heap code)
RECURSIVE RefSort(_, _)
RefSort(s, c) ==
  IF s = <<>> THEN <<>>
  ELSE LET b == CHOOSE i \in DOMAIN s : \A j \in DOMAIN s : ~Comp(c, s[i], s[j])
       IN <<s[b]>> \o RefSort(RemoveAt(s, b), c)

Inverted(c) == IF c = "less" THEN "greater" ELSE "less"

\* heapify, then heap_pop until empty: the emitted values
RECURSIVE PopAll(_, _)
PopAll(h, c) ==
  IF h = <<>> THEN <<>>
  ELSE LET p == heap_pop(h, c) IN <<p.out>> \o PopAll(p.data, c)

TopKOps == {"top_k", "largest_k", "smallest_k"}


\* ================================================================== claims

\* C1: after heapify, and after every heap_push and heap_pop made with the
\* same comparator, is_heap returns true on the sequence: no index i >= 1 has
\* comp(seq[(i-1)/2], seq[i]).
C1_HeapPreserved ==
  (heaped \/ op \in {"heapify", "heap_push", "heap_pop"})
    => is_heap(data, comp) /\ HeapInvariant(data, comp)

C1_Witness ==
  /\ heaped /\ op = "heap_pop" /\ dual.st = "popped" /\ ~err
  /\ dual.top = dual.x
  /\ Len(data) >= 3 /\ At(data, 0) # At(data, 2) /\ data # dual.base

\* C2: heapify followed by heap_pop until empty emits the elements best to
\* worst: every pop is no better than the one before, exactly n pops empty a
\* sequence of length n, and the emitted sequence is the reference sort of the
\* input.
C2_FullDrain ==
  drain.live =>
    /\ Len(drain.out) + Len(data) = Len(drain.src)
    /\ BestToWorst(drain.out, comp)
    /\ data = <<>> =>
         /\ SameElements(drain.out, drain.src)
         /\ comp \in {"less", "greater"} => drain.out = RefSort(drain.src, comp)

C2_Witness ==
  /\ drain.live /\ data = <<>> /\ op = "heap_pop" /\ ~err
  /\ Len(drain.out) = MaxDrain
  /\ drain.out # drain.src
  /\ drain.out[1] # drain.out[MaxDrain]

\* C4: heap_top and heap_pop on an empty sequence signal the error, return no
\* value and leave the sequence empty; an error never comes with a changed
\* sequence.
C4_EmptyErrors ==
  /\ (op \in {"heap_top", "heap_pop"} /\ before = <<>>)
       => err /\ ret = NoValue /\ data = <<>>
  /\ err => data = before /\ before = <<>>

C4_Witness ==
  /\ op = "heap_pop" /\ err /\ before = <<>>
  /\ heaped /\ ret = NoValue

\* C6: on a non-empty sequence built by heapify / heap_push / heap_pop,
\* heap_top returns the first element, and no element of the sequence is
\* better: the maximum under "<", the minimum under ">".
C6_TopIsBest ==
  (heaped /\ op = "heap_top" /\ ~err) =>
    /\ data = before
    /\ ret = At(data, 0)
    /\ \A i \in DOMAIN data : ~Comp(comp, ret, data[i])
    /\ comp = "less" => \A i \in DOMAIN data : ret >= data[i]
    /\ comp = "greater" => \A i \in DOMAIN data : ret <= data[i]

C6_Witness ==
  /\ heaped /\ op = "heap_top" /\ ~err
  /\ comp = "greater" /\ dual.st = "pushed" /\ ret = dual.x
  /\ Len(data) >= 3 /\ \E i \in DOMAIN data : data[i] > ret

\* C7: for a fixed input, the values emitted by heapify + pop-until-empty
\* under ">" are the exact reverse of those emitted under "<".
C7_InversionReverses ==
  (drain.live /\ data = <<>> /\ comp \in {"less", "greater"}) =>
    drain.out = Reverse(PopAll(heapify(drain.src, Inverted(comp)), Inverted(comp)))

C7_Witness ==
  /\ drain.live /\ data = <<>> /\ comp = "greater"
  /\ Len(drain.out) = MaxDrain /\ drain.out[1] < drain.out[MaxDrain]
  /\ drain.src # drain.out /\ drain.src # Reverse(drain.out)


\* C3: top_k never signals the empty-structure error and returns exactly
\* min(k, n) elements, the first min(k, n) of the best-to-worst sort of the
\* input: empty when k = 0 or n = 0, the whole input sorted when k >= n;
\* largest_k is top_k under "<" (descending), smallest_k under ">" (ascending).
C3_TopK ==
  op \in TopKOps =>
    LET n == Len(before)
        m == Min2(arg, n)
    IN /\ ~err
       /\ Len(result) = m
       /\ BestToWorst(result, cArg)
       /\ \A v \in Values : Count(result, v) <= Count(before, v)
       /\ \A i \in DOMAIN result : \A v \in Values :
            Count(result, v) < Count(before, v) => ~Comp(cArg, result[i], v)
       /\ cArg \in {"less", "greater"} => result = SubSeq(RefSort(before, cArg), 1, m)
       /\ result = SubSeq(PopAll(heapify(before, cArg), cArg), 1, m)
       /\ (arg = 0 \/ n = 0) => result = <<>>
       /\ arg >= n => SameElements(result, before)
       /\ op = "largest_k" =>
            cArg = "less" /\ \A i \in 1..(m - 1) : result[i] >= result[i + 1]
       /\ op = "smallest_k" =>
            cArg = "greater" /\ \A i \in 1..(m - 1) : result[i] <= result[i + 1]

C3_Witness ==
  /\ op = "smallest_k" /\ arg = 3 /\ Len(before) = MaxInput
  /\ result[1] < result[3]
  /\ result # SubSeq(before, 1, 3)
  /\ \E i \in DOMAIN before : before[i] > result[3]

\* C5: top_k, largest_k and smallest_k leave the caller's collection as it
\* was, element by element.
C5_InputUntouched ==
  op \in TopKOps =>
    /\ data = before
    /\ \A v \in Values : Count(data, v) = expected[v]

C5_Witness ==
  /\ op = "top_k" /\ cArg = "by_key" /\ Len(result) = 2
  /\ Len(data) = MaxInput /\ ~is_heap(data, cArg)
  /\ result # SubSeq(data, 1, 2)

\* C8 (as stated): a second heapify right after a first one, same comparator,
\* leaves every position as the first call left it.
C8_Original ==
  (op = "heapify" /\ run = 2) => data = before

\* C8 (amended): a second heapify right after a first one keeps the heap
\* invariant and the elements; it leaves every position unchanged when
\* elements that tie under the comparator are identical, as under "<" and ">"
\* on integers.
C8_HeapifyTwice ==
  (op = "heapify" /\ run = 2) =>
    /\ is_heap(data, comp)
    /\ SameElements(data, before)
    /\ comp \in {"less", "greater"} => data = before

C8_Witness ==
  /\ op = "heapify" /\ run = 2 /\ comp = "less"
  /\ Len(data) >= 4
  /\ \E i \in DOMAIN data : \E j \in DOMAIN data : i # j /\ data[i] = data[j]

\* C9 (as stated): heap_push(x) then heap_pop leaves the length as before the
\* push and, when x is not the top after the push, the original elements.
C9_Original ==
  (dual.st = "popped" /\ op = "heap_pop") =>
    /\ Len(data) = Len(dual.base)
    /\ dual.top # dual.x => SameElements(data, dual.base)

\* C9 (amended): heap_push(x) then heap_pop leaves the length as before the
\* push; the pop returns the top after the push, so the sequence holds the
\* original elements when x IS that top, and otherwise the original
\* elements with one occurrence of the returned top replaced by x.
C9_PushPopDuality ==
  (dual.st = "popped" /\ op = "heap_pop") =>
    /\ Len(data) = Len(dual.base)
    /\ ret = dual.top
    /\ dual.top = dual.x => SameElements(data, dual.base)
    /\ \A v \in Values :
         Count(data, v) + (IF v = ret THEN 1 ELSE 0)
           = Count(dual.base, v) + (IF v = dual.x THEN 1 ELSE 0)
    /\ dual.top # dual.x => ~SameElements(data, dual.base)

C9_Witness ==
  /\ dual.st = "popped" /\ op = "heap_pop"
  /\ dual.top # dual.x /\ Len(dual.base) >= 3
  /\ heaped

\* C10: the elements of the sequence are the initial ones plus the pushed
\* values minus the popped values; heapify keeps length and elements,
\* heap_push adds exactly the pushed value, a successful heap_pop removes
\* exactly the value it returns, which was at the first position.
C10_Conservation ==
  /\ \A v \in Values : Count(data, v) = expected[v]
  /\ op = "heapify" => Len(data) = Len(before) /\ SameElements(data, before)
  /\ op = "heap_push" =>
       /\ Len(data) = Len(before) + 1
       /\ \A v \in Values :
            Count(data, v) = Count(before, v) + (IF v = arg THEN 1 ELSE 0)
  /\ (op = "heap_pop" /\ ~err) =>
       /\ Len(data) = Len(before) - 1
       /\ ret = At(before, 0)
       /\ \A v \in Values :
            Count(data, v) = Count(before, v) - (IF v = ret THEN 1 ELSE 0)

C10_Witness ==
  /\ op = "heap_pop" /\ ~err /\ dual.st = "popped"
  /\ Len(data) >= 3 /\ ret # dual.x /\ data # SubSeq(before, 2, Len(before))

====
